---- MODULE Spec2Model ----
(***************************************************************************)
(* Nested (relation) field resolution of strawberry.experimental.pydantic. *)
(*                                                                         *)
(* Python typing objects are modelled as terms: a record with a kind k, a  *)
(* name n, arguments a, and (for placeholders) an instance id i, a field   *)
(* name f and an alternative index x.  typing.Union / typing.Optional are  *)
(* modelled with the normalisation CPython (3.10+) performs: nested unions *)
(* are flattened, duplicates removed, a one-member union is its member,    *)
(* and a two-member union holding NoneType has _name "Optional".           *)
(***************************************************************************)
EXTENDS Integers, Sequences, FiniteSets, TLC

VARIABLES
    stype,      \* record class name -> version of its _strawberry_type (0: absent)
    gens,       \* record class name -> number of GraphQL types generated for it so far
    nextId,     \* serial number of the next placeholder class created
    decl,       \* the declaration of the owner class U (fixed after Init)
    out,        \* outcome of the last process_nested_fields call
    rv,         \* the last placeholder resolution
    memo,       \* forward-reference placeholder id -> its cached _resolve_type
    ex,         \* a run of extract_type_list / outer rebuild on one annotation
    be          \* a run of _nested_field_factory / get_strawberry_type on one field

vars == <<stype, gens, nextId, decl, out, rv, memo, ex, be>>

-----------------------------------------------------------------------------
(* Bounds *)

MaxWrap == 3        \* longest Optional/List nesting drawn as an input
MaxUnion == 3       \* most alternatives of a declared union
MaxCalls == 1       \* process_nested_fields calls in one behaviour
MaxGens == 2        \* GraphQL types generated for one record class in one behaviour

-----------------------------------------------------------------------------
(* Terms *)

Term(k, n, a, i, f, x) == [k |-> k, n |-> n, a |-> a, i |-> i, f |-> f, x |-> x]

Cls(n) == Term("class", n, <<>>, 0, "", 0)
FRef(n) == Term("ref", n, <<>>, 0, "", 0)
StrAnn(n) == Term("str", n, <<>>, 0, "", 0)
NoneType == Term("NoneType", "", <<>>, 0, "", 0)
ListOf(t) == Term("List", "", <<t>>, 0, "", 0)
DictOf(t) == Term("Dict", "", <<Cls("str"), t>>, 0, "", 0)
SType(n, g) == Term("stype", n, <<>>, g, "", 0)

\* The record classes.  U is the class whose fields are processed.
ModelNames == {"U", "B", "C", "D"}

\* isclass(typ) and issubclass(typ, pydantic.BaseModel)
IsModelClass(t) == t.k = "class" /\ t.n \in ModelNames

\* _may_be_model
MayBeModel(t) == IsModelClass(t) \/ t.k = "ref"

\* _is_union: type(typ) is typing._UnionGenericAlias
IsUnion(t) == t.k = "union"

RECURSIVE Flatten(_)
Flatten(s) ==
    IF s = <<>> THEN <<>>
    ELSE (IF Head(s).k = "union" THEN Head(s).a ELSE <<Head(s)>>) \o Flatten(Tail(s))

RECURSIVE Dedup(_, _)
Dedup(s, seen) ==
    IF s = <<>> THEN <<>>
    ELSE IF Head(s) \in seen THEN Dedup(Tail(s), seen)
    ELSE <<Head(s)>> \o Dedup(Tail(s), seen \cup {Head(s)})

\* typing.Union[params]
MkUnion(params) ==
    LET p == Dedup(Flatten(params), {})
    IN  IF Len(p) = 1 THEN p[1] ELSE Term("union", "", p, 0, "", 0)

\* typing.Optional[t]
MkOptional(t) == MkUnion(<<t, NoneType>>)

Range(s) == {s[j] : j \in 1..Len(s)}

\* hasattr(typ, "_name")
HasName(t) == t.k \in {"union", "List", "Dict"}

\* typ._name
NameOf(t) ==
    CASE t.k = "List" -> "List"
      [] t.k = "Dict" -> "Dict"
      [] t.k = "union" /\ Len(t.a) = 2 /\ NoneType \in Range(t.a) -> "Optional"
      [] OTHER -> "None"

\* typ[arg] for a wrapper marker typ
Subscript(marker, t) == IF marker = "Optional" THEN MkOptional(t) ELSE ListOf(t)

-----------------------------------------------------------------------------
(* extract_type_list *)

NotNone(t) == t # NoneType

RECURSIVE ExtractLoopMutCheckAlternatives(_, _)
ExtractLoopMutCheckAlternatives(type_list, inner) ==
    IF MayBeModel(inner)
    THEN [outer |-> type_list, inner |-> <<inner>>, err |-> "", at |-> NoneType]
    ELSE IF ~HasName(inner) \/ (NameOf(inner) \notin {"Optional", "List"} /\ ~IsUnion(inner))
    THEN [outer |-> <<>>, inner |-> <<>>, err |-> "UnsupportedTypeError", at |-> inner]
    ELSE IF NameOf(inner) = "Optional"
    THEN ExtractLoopMutCheckAlternatives(Append(type_list, "Optional"),
                                         SelectSeq(inner.a, NotNone)[1])
    ELSE IF NameOf(inner) = "List"
    THEN ExtractLoopMutCheckAlternatives(Append(type_list, "List"), inner.a[1])
    ELSE IF \E t \in Range(inner.a) : t # NoneType /\ ~MayBeModel(t)
    THEN [outer |-> <<>>, inner |-> <<>>, err |-> "UnsupportedTypeError",
          at |-> CHOOSE t \in Range(inner.a) : t # NoneType /\ ~MayBeModel(t)]
    ELSE [outer |-> type_list, inner |-> inner.a, err |-> "", at |-> NoneType]

RECURSIVE ExtractLoop(_, _)
ExtractLoop(type_list, inner) ==
    IF MayBeModel(inner)
    THEN [outer |-> type_list, inner |-> <<inner>>, err |-> "", at |-> NoneType]
    ELSE IF ~HasName(inner) \/ (NameOf(inner) \notin {"Optional", "List"} /\ ~IsUnion(inner))
    THEN [outer |-> <<>>, inner |-> <<>>, err |-> "UnsupportedTypeError", at |-> inner]
    ELSE IF NameOf(inner) = "Optional"
    THEN ExtractLoop(Append(type_list, "Optional"), SelectSeq(inner.a, NotNone)[1])
    ELSE IF NameOf(inner) = "List"
    THEN ExtractLoop(Append(type_list, "List"), inner.a[1])
    ELSE [outer |-> type_list, inner |-> inner.a, err |-> "", at |-> NoneType]

extract_type_list(typ) == ExtractLoop(<<>>, typ)

\* "Rebuild outer types": for typ in outer_types[-1::-1]: t = typ[t]
RECURSIVE RebuildFrom(_, _, _)
RebuildFrom(outer_types, j, t) ==
    IF j = 0 THEN t ELSE RebuildFrom(outer_types, j - 1, Subscript(outer_types[j], t))

RebuildMutInnerFirst(outer_types, t) ==
    RebuildFrom([j \in 1..Len(outer_types) |-> outer_types[Len(outer_types) + 1 - j]],
                Len(outer_types), t)

Rebuild(outer_types, t) == RebuildFrom(outer_types, Len(outer_types), t)

-----------------------------------------------------------------------------
(* Record classes and their field metadata *)

\* A member of the owner class, as the three frameworks expose it:
\*   infields          name in model.__fields__
\*   ann, dflt         the declared annotation and how the default is given
\*                     ("none", "default": a default value, "required": Field(...))
\*   finfo, to, req    ormar: class of field.field_info, its .to, field.required
\*   attr              what getattr(model, name) is: "absent", "plain" (no
\*                     .property), "column", "relationship" (.property is a
\*                     RelationshipProperty) or "accessor" (ormar FieldAccessor)
\*   acc               the accessor's _model
Member(infields, ann, dflt, finfo, to, req, attr, acc) ==
    [infields |-> infields, ann |-> ann, dflt |-> dflt, finfo |-> finfo, to |-> to,
     req |-> req, attr |-> attr, acc |-> acc]

Absent == Member(FALSE, NoneType, "none", "", NoneType, "undef", "absent", NoneType)

\* model.__fields__[name] / getattr(model, name) of the owner class: "rel" is the
\* field under study, "name" a scalar column, any other name is no member.
MemberOf(d, name) ==
    CASE name = "rel" -> d.rel
      [] name = "name" ->
           Member(TRUE, Cls("str"), "none", "FieldInfo", NoneType, "true",
                  IF "sqlmodel" \in d.fw THEN "column"
                  ELSE IF "ormar" \in d.fw THEN "accessor" ELSE "absent",
                  NoneType)
      [] OTHER -> Absent

\* pydantic's ModelField type analysis: Optional is stripped from type_ and
\* outer_type_; a List or Dict keeps outer_type_ and narrows type_ to its item.
RECURSIVE PydAnalyse(_, _)
PydAnalyse(t, outer) ==
    CASE t.k = "union" ->
           LET nn == SelectSeq(t.a, NotNone)
           IN  IF Len(nn) = 1 THEN PydAnalyse(nn[1], nn[1])
               ELSE [type_ |-> t, outer_type_ |-> outer]
      [] t.k = "List" -> [type_ |-> t.a[1], outer_type_ |-> outer]
      [] t.k = "Dict" -> [type_ |-> t.a[2], outer_type_ |-> outer]
      [] OTHER -> [type_ |-> t, outer_type_ |-> outer]

\* pydantic's ModelField.required: left Undefined while the type is an
\* unevaluated ForwardRef, False for a default or a None alternative.
PydRequired(ann, dflt) ==
    CASE dflt = "required" -> "true"
      [] dflt = "default" -> "false"
      [] ann.k = "ref" -> "undef"
      [] ann.k = "union" /\ NoneType \in Range(ann.a) -> "false"
      [] OTHER -> "true"

ModelField(m) ==
    LET an == PydAnalyse(m.ann, m.ann)
    IN  [type_ |-> an.type_, outer_type_ |-> an.outer_type_,
         required |-> PydRequired(m.ann, m.dflt)]

\* typing.get_type_hints(model)[name]: forward references evaluated.
RECURSIVE ResolveHints(_)
ResolveHints(t) ==
    CASE t.k \in {"ref", "str"} -> Cls(t.n)
      [] t.k = "union" -> MkUnion([j \in 1..Len(t.a) |-> ResolveHints(t.a[j])])
      [] t.k = "List" -> ListOf(ResolveHints(t.a[1]))
      [] t.k = "Dict" -> [t EXCEPT !.a = [j \in 1..Len(t.a) |-> ResolveHints(t.a[j])]]
      [] OTHER -> t

\* the annotations as written, forward references left unevaluated
GetTypeHintsMutUnevaluated(d, name) == MemberOf(d, name).ann

\* typing.get_type_hints(model)[name]
get_type_hints(d, name) == ResolveHints(MemberOf(d, name).ann)

-----------------------------------------------------------------------------
(* Lazy placeholders *)

\* LazyModelType[model]: a new class and instance each time (id)
LazyModelType(model, id) == Term("lazymodel", model, <<>>, id, "", 0)

\* LazyForwardRefType[model, name, index]
LazyForwardRefType(model, name, index, id) == Term("lazyref", model, <<>>, id, name, index)

IsLazy(t) == t.k \in {"lazymodel", "lazyref"}

-----------------------------------------------------------------------------
(* Backends *)

NoField == [type_ |-> NoneType, outer_type_ |-> NoneType, required |-> "undef"]

\* NestedBackend.__init__ before _post_init
NewBackend(cls, name) ==
    [cls |-> cls, name |-> name, model |-> "U", child_model |-> <<>>, field |-> NoField,
     outer_types |-> <<>>, required |-> "undef", child_type |-> NoneType,
     f_info |-> "", f_accessor |-> FALSE]

\* An outcome of a constructor: the exception raised (err, and what its message
\* names) or the instance.
RaisedAt(err, self, at) == [err |-> err, self |-> self, names |-> at]
Raised(err, self) == RaisedAt(err, self, NoneType)
Done(self) == RaisedAt("", self, NoneType)

\* NestedPydanticBackend._post_init
PydanticPostInit(self, d) ==
    LET m == MemberOf(d, self.name)
        field == ModelField(m)
    IN  IF ~m.infields THEN Raised("KeyError", self)
        ELSE IF MayBeModel(field.type_)
        THEN Done([self EXCEPT !.field = field, !.child_model = <<field.type_>>])
        ELSE IF IsUnion(field.type_) /\ \E j \in 1..Len(field.type_.a) : MayBeModel(field.type_.a[j])
        THEN Done([self EXCEPT !.field = field, !.child_model = field.type_.a])
        ELSE Done([self EXCEPT !.field = field])

\* NestedSQLModelBackend._post_init
SQLModelPostInit(self, d) ==
    LET m == MemberOf(d, self.name)
        r == extract_type_list(m.ann)
    IN  IF m.attr \in {"absent", "plain"} THEN Raised("AttributeError", self)
        ELSE IF m.attr # "relationship" THEN Done(self)
        ELSE IF r.err # "" THEN RaisedAt(r.err, self, r.at)
        ELSE Done([self EXCEPT !.outer_types = r.outer, !.child_model = r.inner,
                               !.required = IF r.outer # <<>>
                                            THEN (IF r.outer[1] # "NoneType" THEN "true" ELSE "false")
                                            ELSE "true"])

\* NestedOrmarBackend._post_init: fills child_type, never child_model
OrmarPostInit(self, d) ==
    LET m == MemberOf(d, self.name)
    IN  IF m.infields
        THEN IF m.finfo \notin {"ForeignKeyField", "ManyToManyField"} THEN Done(self)
             ELSE Done([self EXCEPT !.f_info = m.finfo, !.f_accessor = FALSE,
                                    !.child_type = m.to, !.required = m.req])
        ELSE IF m.attr = "accessor"
        THEN Done([self EXCEPT !.f_accessor = TRUE, !.child_type = m.acc,
                               !.required = "false"])
        ELSE Done(self)

post_init(self, d) ==
    CASE self.cls = "NestedOrmarBackend" -> OrmarPostInit(self, d)
      [] self.cls = "NestedSQLModelBackend" -> SQLModelPostInit(self, d)
      [] OTHER -> PydanticPostInit(self, d)

NestedBackendMutNoEmptyTest(cls, name, d) == post_init(NewBackend(cls, name), d)

\* NestedBackend.__init__
NestedBackend(cls, name, d) ==
    LET r == post_init(NewBackend(cls, name), d)
    IN  IF r.err # "" THEN r
        ELSE IF r.self.child_model = <<>> THEN Raised("RelationFieldError", r.self)
        ELSE r

FactoryMutSqlFirst(name, d) ==
    IF "sqlmodel" \in d.fw THEN NestedBackend("NestedSQLModelBackend", name, d)
    ELSE IF "ormar" \in d.fw THEN NestedBackend("NestedOrmarBackend", name, d)
    ELSE IF "pydantic" \notin d.fw THEN Raised("AssertionError", NewBackend("", name))
    ELSE NestedBackend("NestedPydanticBackend", name, d)

\* _nested_field_factory
nested_field_factory(name, d) ==
    IF "ormar" \in d.fw THEN NestedBackend("NestedOrmarBackend", name, d)
    ELSE IF "sqlmodel" \in d.fw THEN NestedBackend("NestedSQLModelBackend", name, d)
    ELSE IF "pydantic" \notin d.fw THEN Raised("AssertionError", NewBackend("", name))
    ELSE NestedBackend("NestedPydanticBackend", name, d)

ProcessTypeMutAlwaysLazy(self, typ, idx, id) ==
    IF typ.k = "ref" THEN LazyForwardRefType(self.model, self.name, idx, id)
    ELSE IF IsModelClass(typ) THEN LazyModelType(typ.n, id)
    ELSE typ

\* NestedPydanticBackend._process_type; id names the placeholder class it creates
process_type(self, typ, idx, id) ==
    IF typ.k = "ref" THEN LazyForwardRefType(self.model, self.name, idx, id)
    ELSE IF IsModelClass(typ)
    THEN (IF stype[typ.n] # 0 THEN SType(typ.n, stype[typ.n]) ELSE LazyModelType(typ.n, id))
    ELSE typ

NoUnion == Term("None", "", <<>>, 0, "", 0)

\* NestedPydanticBackend._process_union: the loop over zip(types, types[1:])
RECURSIVE ProcessUnionLoop(_, _, _, _, _)
ProcessUnionLoop(self, union_types, i, union, base) ==
    IF i + 2 > Len(union_types) THEN union
    ELSE LET typ_a == process_type(self, union_types[i + 1], i, base + 2 * i)
             typ_b == process_type(self, union_types[i + 2], i + 1, base + 2 * i + 1)
             pair == MkUnion(<<typ_a, typ_b>>)
         IN  ProcessUnionLoop(self, union_types, i + 1,
                              IF union = NoUnion THEN pair ELSE MkUnion(<<union, pair>>),
                              base)

process_union(self, union_types, base) == ProcessUnionLoop(self, union_types, 0, NoUnion, base)

\* NestedPydanticBackend.outer_types / NestedSQLModelBackend.outer_types
OuterTypes(self) ==
    IF self.cls = "NestedSQLModelBackend"
    THEN [outer |-> self.outer_types, err |-> ""]
    ELSE LET r == extract_type_list(self.field.outer_type_)
         IN  [outer |-> r.outer, err |-> r.err]

RequiredMutNotFirstList(self, d) ==
    IF self.cls = "NestedSQLModelBackend"
    THEN self.outer_types = <<>> \/ self.outer_types[1] # "List"
    ELSE IF self.field.required = "undef"
    THEN NameOf(get_type_hints(d, self.name)) # "Optional"
    ELSE self.field.required = "true"

\* NestedPydanticBackend.required / NestedSQLModelBackend.required
Required(self, d) ==
    IF self.cls = "NestedSQLModelBackend" THEN self.required = "true"
    ELSE IF self.field.required = "undef"
    THEN NameOf(get_type_hints(d, self.name)) # "Optional"
    ELSE self.field.required = "true"

\* ids one get_strawberry_type call consumes
IdsUsed(self) ==
    IF Len(self.child_model) > 1 THEN 2 * (Len(self.child_model) - 1) ELSE 1

\* NestedPydanticBackend.get_strawberry_type (inherited by the SQLModel backend)
PydanticGetType(self, d, base) ==
    LET ot == OuterTypes(self)
        isu == Len(self.child_model) > 1
        bottom == IF isu THEN process_union(self, self.child_model, base)
                  ELSE process_type(self, self.child_model[1], 0, base)
        none_in_union == isu /\ \E j \in 1..Len(ot.outer) : ot.outer[j] = "NoneType"
        rebuilt == Rebuild(ot.outer, bottom)
    IN  IF ot.err # "" THEN [err |-> ot.err, typ |-> NoneType, bottom |-> bottom]
        ELSE [err |-> "", bottom |-> bottom,
              typ |-> IF none_in_union \/ ~Required(self, d) THEN MkOptional(rebuilt)
                      ELSE rebuilt]

\* NestedOrmarBackend.get_strawberry_type
OrmarGetType(self, d, base) ==
    LET child_type == IF self.child_type.k = "ref" THEN Cls(self.child_type.n)
                      ELSE self.child_type
        t0 == IF child_type.k = "class" /\ child_type.n \in ModelNames /\ stype[child_type.n] # 0
              THEN SType(child_type.n, stype[child_type.n])
              ELSE LazyModelType(child_type.n, base)
        t1 == IF self.f_accessor \/ self.f_info = "ManyToManyField"
              THEN ListOf(MkOptional(t0)) ELSE t0
    IN  [err |-> "", bottom |-> t0,
         typ |-> IF self.required = "undef" \/ self.required # "true" THEN MkOptional(t1) ELSE t1]

\* replace_ormar_types(type_, model, name): the free-function copy of the ormar
\* backend; a name bound in no branch is an UnboundLocalError when read.
replace_ormar_types(type_, d, name, id) ==
    LET m == MemberOf(d, name)
        forward == m.infields
        reverse == ~m.infields /\ m.attr = "accessor"
        child0 == IF forward THEN m.to ELSE m.acc
        child_type == IF child0.k = "ref" THEN Cls(child0.n) ELSE child0
        t0 == IF IsModelClass(child_type) /\ stype[child_type.n] # 0
              THEN SType(child_type.n, stype[child_type.n])
              ELSE LazyModelType(child_type.n, id)
        t1 == IF reverse \/ m.finfo = "ManyToManyField" THEN ListOf(MkOptional(t0)) ELSE t0
        required == IF forward THEN m.req ELSE "false"
    IN  IF forward /\ m.finfo \notin {"ForeignKeyField", "ManyToManyField"}
        THEN [pc |-> "done", err |-> "", typ |-> type_]
        ELSE IF ~forward /\ ~reverse
        THEN [pc |-> "done", err |-> "UnboundLocalError", typ |-> NoneType]
        ELSE IF reverse /\ child0.k = "ref"
        THEN [pc |-> "done", err |-> "UnboundLocalError", typ |-> NoneType]
        ELSE [pc |-> "done", err |-> "",
              typ |-> IF required # "true" THEN MkOptional(t1) ELSE t1]

get_strawberry_type(self, d, base) ==
    IF self.cls = "NestedOrmarBackend" THEN OrmarGetType(self, d, base)
    ELSE PydanticGetType(self, d, base)

-----------------------------------------------------------------------------
(* process_nested_fields *)

\* The GraphQL type under construction: the names it already annotates and the
\* names it holds a class attribute (a default) for.
TypeClass(annotations, attrs) == [annotations |-> annotations, attrs |-> attrs]

\* StrawberryField(python_name=name, graphql_name=None, type_annotation=...,
\*                 origin=type_class, default=getattr(type_class, name, UNSET))
StrawberryField(name, typ, type_class) ==
    [python_name |-> name, graphql_name |-> "None", type_annotation |-> typ,
     origin |-> type_class,
     default |-> IF name \in type_class.attrs THEN "default" ELSE "UNSET"]

PnfResult(pc, err, at, fields, id) ==
    [pc |-> pc, err |-> err, at |-> at, fields |-> fields, id |-> id]

PnfLoopMutSwallow(type_class, order, i, d, fields, id) ==
    PnfResult("returned", "", "", fields, id)

RECURSIVE PnfLoop(_, _, _, _, _, _)

\* field_type = nested_backend.get_strawberry_type(); the field is appended
PnfTyped(type_class, order, i, d, fields, id, self, g) ==
    IF g.err # "" THEN PnfResult("raised", g.err, order[i], <<>>, id)
    ELSE PnfLoop(type_class, order, i + 1, d,
                 Append(fields, StrawberryField(order[i], g.typ, type_class)),
                 id + IdsUsed(self))

PnfConstructedMutNoCatch(type_class, order, i, d, fields, id, r) ==
    IF r.err # "" THEN PnfResult("raised", r.err, order[i], <<>>, id)
    ELSE PnfTyped(type_class, order, i, d, fields, id, r.self,
                  get_strawberry_type(r.self, d, id))

\* try: nested_backend = _nested_field_factory(...) except RelationFieldError: continue
PnfConstructed(type_class, order, i, d, fields, id, r) ==
    IF r.err = "RelationFieldError" THEN PnfLoop(type_class, order, i + 1, d, fields, id)
    ELSE IF r.err # "" THEN PnfResult("raised", r.err, order[i], <<>>, id)
    ELSE PnfTyped(type_class, order, i, d, fields, id, r.self,
                  get_strawberry_type(r.self, d, id))

\* The loop of process_nested_fields over the names in iteration order.
PnfLoop(type_class, order, i, d, fields, id) ==
    IF i > Len(order) THEN PnfResult("returned", "", "", fields, id)
    ELSE IF order[i] \in type_class.annotations
    THEN PnfLoop(type_class, order, i + 1, d, fields, id)
    ELSE PnfConstructed(type_class, order, i, d, fields, id,
                        nested_field_factory(order[i], d))

process_nested_fields(type_class, order, d, id) == PnfLoop(type_class, order, 1, d, <<>>, id)

-----------------------------------------------------------------------------
(* Placeholder resolution *)

RECURSIVE Placeholders(_)
Placeholders(t) ==
    IF IsLazy(t) THEN {t}
    ELSE UNION {Placeholders(t.a[j]) : j \in 1..Len(t.a)}

Resolution(err, typ) == [err |-> err, typ |-> typ]

StrawberryTypeOfMutDefault(t) ==
    IF IsModelClass(t) /\ stype[t.n] # 0 THEN Resolution("", SType(t.n, stype[t.n]))
    ELSE Resolution("", NoneType)

\* getattr(cls, "_strawberry_type") of whatever the placeholder points at
StrawberryTypeOf(t) ==
    IF IsModelClass(t) /\ stype[t.n] # 0 THEN Resolution("", SType(t.n, stype[t.n]))
    ELSE Resolution("AttributeError", NoneType)

\* LazyForwardRefType._resolve_type (before memoization)
ForwardRefResolve(p, d) ==
    LET r == extract_type_list(get_type_hints(d, p.f))
    IN  IF r.err # "" THEN Resolution(r.err, NoneType)
        ELSE IF p.x + 1 > Len(r.inner) THEN Resolution("IndexError", NoneType)
        ELSE StrawberryTypeOf(r.inner[p.x + 1])

ModelResolveMutFirstType(p) ==
    IF gens[p.n] # 0 THEN Resolution("", SType(p.n, 1)) ELSE StrawberryTypeOf(Cls(p.n))

\* LazyModelType.resolve_type
ModelResolve(p) == StrawberryTypeOf(Cls(p.n))

CachedResolveMutRecompute(p, d) == ForwardRefResolve(p, d)

\* cached_property: the value kept in the instance, else _resolve_type computed
CachedResolve(p, d) ==
    IF p.i \in DOMAIN memo THEN Resolution("", memo[p.i]) ELSE ForwardRefResolve(p, d)

-----------------------------------------------------------------------------
(* Inputs of the extraction runs *)

Markers == {"Optional", "List"}

RECURSIVE SeqsUpTo(_, _)
SeqsUpTo(S, n) ==
    IF n = 0 THEN {<<>>}
    ELSE LET prev == SeqsUpTo(S, n - 1)
         IN  prev \cup {Append(s, e) : s \in prev, e \in S}

\* The annotation W1[W2[...Wk[X]]] as Python evaluates it (innermost first).
RECURSIVE Nest(_, _)
Nest(w, t) == IF w = <<>> THEN t ELSE Subscript(Head(w), Nest(Tail(w), t))

Bottoms == {Cls("B"), Cls("U"), FRef("B"), FRef("C")}

Resolved == {SType("B", 1), Term("lazymodel", "B", <<>>, 1, "", 0),
             Term("lazyref", "U", <<>>, 1, "rel", 0)}

NoEx == [pc |-> "off", w |-> <<>>, x |-> NoneType, y |-> NoneType,
         res |-> [outer |-> <<>>, inner |-> <<>>, err |-> "", at |-> NoneType],
         rebuilt |-> NoneType]

-----------------------------------------------------------------------------
(* Inputs of the backend runs: declarations of the field "rel" of U *)

DistinctSeqs(S, n) == {s \in [1..n -> S] : \A i, j \in 1..n : i # j => s[i] # s[j]}

UnionSeqsOver(S) == UNION {DistinctSeqs(S, n) : n \in 2..MaxUnion}

UnionSeqs ==
    UnionSeqsOver({Cls("B"), Cls("C"), Cls("D"), NoneType})
    \cup UnionSeqsOver({FRef("B"), FRef("C"), FRef("D"), NoneType})
    \cup DistinctSeqs({Cls("B"), Cls("str")}, 2)
    \cup DistinctSeqs({Cls("B"), FRef("C")}, 2)
    \cup {<<Cls("str"), Cls("int")>>}

UnionAnns == {MkUnion(s) : s \in UnionSeqs}

WrappedAnns ==
    {Nest(w, x) : w \in SeqsUpTo(Markers, 2), x \in {Cls("B"), FRef("B"), FRef("U")}}

OtherAnns ==
    {Cls("str"), ListOf(Cls("str")), DictOf(Cls("str")), DictOf(Cls("B")),
     MkOptional(DictOf(Cls("B"))), ListOf(DictOf(FRef("B")))}

PydMember(ann, dflt) ==
    Member(TRUE, ann, dflt, "FieldInfo", NoneType, PydRequired(ann, dflt), "absent", NoneType)

PydMembers ==
    {PydMember(ann, dflt) : ann \in WrappedAnns \cup OtherAnns,
                            dflt \in {"none", "default", "required"}}
    \cup {PydMember(ann, dflt) : ann \in UnionAnns \cup {ListOf(u) : u \in UnionAnns},
                                 dflt \in {"none", "default"}}
    \cup {Absent}

SqlRelationship(ann) ==
    Member(FALSE, ann, "none", "", NoneType, "undef", "relationship", NoneType)

SqlMembers ==
    {SqlRelationship(ann) : ann \in WrappedAnns \cup OtherAnns \cup UnionAnns
                                    \cup {ListOf(u) : u \in UnionAnns} \cup {StrAnn("B")}}
    \cup {Member(TRUE, Cls("str"), "none", "FieldInfo", NoneType, "true", "column", NoneType),
          Member(FALSE, Cls("str"), "none", "", NoneType, "undef", "plain", NoneType),
          Absent}

OrmarMembers ==
    {Member(TRUE, NoneType, "none", fi, to, req, "accessor", to) :
        fi \in {"ForeignKeyField", "ManyToManyField"},
        to \in {Cls("B"), FRef("U")}, req \in {"true", "false", "undef"}}
    \cup {Member(TRUE, Cls("str"), "none", "FieldInfo", NoneType, req, "accessor", NoneType) :
            req \in {"true", "false"}}
    \cup {Member(FALSE, NoneType, "none", "", NoneType, "undef", "accessor", acc) :
            acc \in {Cls("B"), Cls("U")}}
    \cup {Absent}

\* A class in both ORM hierarchies, and a class in none.
HybridMembers ==
    {Member(TRUE, Cls("B"), "none", "ForeignKeyField", Cls("B"), "true", "relationship", Cls("B")),
     Member(FALSE, MkOptional(Cls("B")), "none", "", NoneType, "undef", "relationship", NoneType)}

Decls ==
    {[fw |-> {"pydantic"}, rel |-> m] : m \in PydMembers}
    \cup {[fw |-> {"pydantic", "sqlmodel"}, rel |-> m] : m \in SqlMembers}
    \cup {[fw |-> {"pydantic", "ormar"}, rel |-> m] : m \in OrmarMembers}
    \cup {[fw |-> {"pydantic", "ormar", "sqlmodel"}, rel |-> m] : m \in HybridMembers}
    \cup {[fw |-> {}, rel |-> m] : m \in {Absent, PydMember(Cls("B"), "none")}}

FieldNames == {"rel", "name", "ghost"}

NoType == [err |-> "", typ |-> NoneType, bottom |-> NoneType]

NoShim == [pc |-> "off", err |-> "", typ |-> NoneType]

NoBe == [pc |-> "off", name |-> "", res |-> Raised("", NewBackend("", "")), got |-> NoType,
         shim |-> NoShim]

NoOut == [pc |-> "idle", err |-> "", at |-> "", fields |-> <<>>, calls |-> 0,
          type_class |-> TypeClass({}, {}), requested |-> {}]

NoRv == [pc |-> "idle", p |-> NoneType, res |-> Resolution("", NoneType)]

BeInit ==
    /\ stype \in [ModelNames -> {0, 1}]
    /\ gens = stype
    /\ nextId = 1
    /\ decl \in Decls
    /\ out = NoOut
    /\ rv = NoRv
    /\ memo = <<>>
    /\ ex = NoEx
    /\ be = [NoBe EXCEPT !.pc = "input"]

\* field = _nested_field_factory(name, model)
BeFactory ==
    /\ be.pc = "input"
    /\ \E name \in FieldNames :
          LET r == nested_field_factory(name, decl)
          IN  be' = [be EXCEPT !.pc = IF r.err = "" THEN "constructed" ELSE "raised",
                               !.name = name, !.res = r]
    /\ UNCHANGED <<stype, gens, nextId, decl, out, rv, memo, ex>>

\* strawberry_type = field.get_strawberry_type()
BeGetType ==
    /\ be.pc = "constructed"
    /\ LET g == get_strawberry_type(be.res.self, decl, nextId)
       IN  /\ be' = [be EXCEPT !.pc = IF g.err = "" THEN "typed" ELSE "typefail", !.got = g]
           /\ nextId' = nextId + IdsUsed(be.res.self)
    /\ UNCHANGED <<stype, gens, decl, out, rv, memo, ex>>

\* The shim called on the same field of an ormar model.
BeShim ==
    /\ be.pc \notin {"off", "input"}
    /\ be.shim.pc = "off"
    /\ "ormar" \in decl.fw
    /\ be' = [be EXCEPT !.shim = replace_ormar_types(MemberOf(decl, be.name).ann, decl,
                                                     be.name, nextId)]
    /\ nextId' = nextId + 1
    /\ UNCHANGED <<stype, gens, decl, out, rv, memo, ex>>

ShimNext == BeFactory \/ BeGetType \/ BeShim

SpecShim == BeInit /\ [][ShimNext]_vars

BeNext == BeFactory \/ BeGetType

SpecBackend == BeInit /\ [][BeNext]_vars

-----------------------------------------------------------------------------
(* Extraction runs *)

ExInit ==
    /\ stype = [m \in ModelNames |-> 0]
    /\ gens = [m \in ModelNames |-> 0]
    /\ nextId = 1
    /\ decl = [fw |-> {}, rel |-> Absent]
    /\ out = NoOut
    /\ rv = NoRv
    /\ memo = <<>>
    /\ be = NoBe
    /\ \E w \in SeqsUpTo(Markers, MaxWrap), x \in Bottoms, y \in Resolved :
          ex = [NoEx EXCEPT !.pc = "input", !.w = w, !.x = x, !.y = y]

ExExtract ==
    /\ ex.pc = "input"
    /\ ex' = [ex EXCEPT !.pc = "extracted", !.res = extract_type_list(Nest(ex.w, ex.x))]
    /\ UNCHANGED <<stype, gens, nextId, decl, out, rv, memo, be>>

ExRebuild ==
    /\ ex.pc = "extracted"
    /\ ex.res.err = ""
    /\ ex' = [ex EXCEPT !.pc = "rebuilt", !.rebuilt = Rebuild(ex.res.outer, ex.y)]
    /\ UNCHANGED <<stype, gens, nextId, decl, out, rv, memo, be>>

ExNext == ExExtract \/ ExRebuild

SpecExtract == ExInit /\ [][ExNext]_vars

\* Unions as the bottom of the annotation: every ordered pair of distinct
\* alternatives among two record references and two other classes, and two
\* unions of three.
UnionAlternatives == {Cls("B"), FRef("C"), Cls("str"), Cls("int")}

UnionBottoms ==
    {MkUnion(s) : s \in DistinctSeqs(UnionAlternatives, 2)}
    \cup {MkUnion(<<Cls("B"), FRef("C"), Cls("str")>>),
          MkUnion(<<Cls("B"), FRef("C"), Cls("D")>>)}

UxInit ==
    /\ stype = [m \in ModelNames |-> 0]
    /\ gens = [m \in ModelNames |-> 0]
    /\ nextId = 1
    /\ decl = [fw |-> {}, rel |-> Absent]
    /\ out = NoOut
    /\ rv = NoRv
    /\ memo = <<>>
    /\ be = NoBe
    /\ \E w \in SeqsUpTo(Markers, MaxWrap), x \in UnionBottoms, y \in Resolved :
          ex = [NoEx EXCEPT !.pc = "input", !.w = w, !.x = x, !.y = y]

SpecUnionExtract == UxInit /\ [][ExNext]_vars

-----------------------------------------------------------------------------
(* The type-generation run: declarations, conversion, generation, resolution *)

MainAnns ==
    WrappedAnns
    \cup {MkUnion(<<Cls("B"), Cls("C")>>), MkUnion(<<Cls("B"), Cls("C"), Cls("D")>>),
          MkUnion(<<FRef("B"), FRef("C")>>), MkUnion(<<Cls("B"), Cls("C"), NoneType>>),
          MkUnion(<<FRef("B"), FRef("C"), FRef("D")>>),
          ListOf(MkUnion(<<FRef("B"), FRef("C")>>)),
          MkOptional(MkUnion(<<FRef("B"), FRef("C")>>)),
          MkUnion(<<Cls("B"), Cls("str")>>), DictOf(Cls("B")), DictOf(Cls("str")),
          Cls("str"), ListOf(Cls("str"))}

MainDecls ==
    {[fw |-> {"pydantic"}, rel |-> PydMember(ann, dflt)] :
        ann \in MainAnns, dflt \in {"none", "default"}}
    \cup {[fw |-> {"pydantic", "sqlmodel"}, rel |-> SqlRelationship(ann)] :
            ann \in MainAnns \cup {StrAnn("B")}}
    \cup {[fw |-> {"pydantic", "ormar"}, rel |-> m] : m \in OrmarMembers}
    \cup {[fw |-> {"pydantic", "ormar", "sqlmodel"}, rel |-> m] : m \in HybridMembers}
    \cup {[fw |-> {}, rel |-> Absent]}

TypeClasses ==
    {TypeClass({}, {}), TypeClass({"rel"}, {}), TypeClass({}, {"rel"}),
     TypeClass({"name", "ghost"}, {"name"})}

\* The orders in which a set of names can be iterated.
Orders(S) == DistinctSeqs(S, Cardinality(S))

Init ==
    /\ stype = [m \in ModelNames |-> 0]
    /\ gens = [m \in ModelNames |-> 0]
    /\ nextId = 1
    /\ decl \in MainDecls
    /\ out = NoOut
    /\ rv = NoRv
    /\ memo = <<>>
    /\ ex = NoEx
    /\ be = NoBe

\* The host attaches the generated GraphQL type to a converted record class.
\* Each conversion makes a new type object: the next version for that class.
AttachType(m) ==
    /\ stype[m] = 0
    /\ gens[m] < MaxGens
    /\ stype' = [stype EXCEPT ![m] = gens[m] + 1]
    /\ gens' = [gens EXCEPT ![m] = gens[m] + 1]
    /\ UNCHANGED <<nextId, decl, out, rv, memo, ex, be>>

\* One call of process_nested_fields(type_class, fields_set, model)
ProcessNestedFields ==
    /\ out.calls < MaxCalls
    /\ \E type_class \in TypeClasses, fields_set \in (SUBSET FieldNames) \ {{}} :
        \E order \in Orders(fields_set) :
          \E r \in {process_nested_fields(type_class, order, decl, nextId)} :
              /\ out' = [pc |-> r.pc, err |-> r.err, at |-> r.at, fields |-> r.fields,
                         calls |-> out.calls + 1, type_class |-> type_class,
                         requested |-> fields_set]
              /\ nextId' = r.id
    /\ UNCHANGED <<stype, gens, decl, rv, memo, ex, be>>

\* The placeholders of the field types generated by the last call.
Generated == UNION {Placeholders(out.fields[j].type_annotation) : j \in 1..Len(out.fields)}

\* The schema builder resolves a model placeholder.
ResolveModel ==
    /\ \E p \in Generated :
          /\ p.k = "lazymodel"
          /\ LET r == ModelResolve(p)
             IN  rv' = [pc |-> IF r.err = "" THEN "resolved" ELSE "failed", p |-> p, res |-> r]
    /\ UNCHANGED <<stype, gens, nextId, decl, out, memo, ex, be>>

\* The schema builder resolves a forward-reference placeholder; _resolve_type is
\* a cached_property: a value computed once is kept, a raise keeps nothing.
ResolveForwardRef ==
    /\ \E p \in Generated :
          /\ p.k = "lazyref"
          /\ LET r == CachedResolve(p, decl)
             IN  /\ rv' = [pc |-> IF r.err = "" THEN "resolved" ELSE "failed", p |-> p, res |-> r]
                 /\ memo' = IF r.err = "" /\ p.i \notin DOMAIN memo
                            THEN (p.i :> r.typ) @@ memo ELSE memo
    /\ UNCHANGED <<stype, gens, nextId, decl, out, ex, be>>

Next ==
    \/ \E m \in ModelNames : AttachType(m)
    \/ ProcessNestedFields
    \/ ResolveModel
    \/ ResolveForwardRef

Spec == Init /\ [][Next]_vars

-----------------------------------------------------------------------------
(* The same run when a test fixture clears the cached types between uses *)

\* clear_types: delattr(model, "_strawberry_type")
ClearType(m) ==
    /\ stype[m] # 0
    /\ stype' = [stype EXCEPT ![m] = 0]
    /\ UNCHANGED <<gens, nextId, decl, out, rv, memo, ex, be>>

LifeAnns ==
    {Cls("B"), FRef("B"), FRef("U"), ListOf(FRef("B")), MkOptional(Cls("B")),
     MkUnion(<<Cls("B"), Cls("C")>>), MkUnion(<<FRef("B"), FRef("C")>>)}

LifeDecls ==
    {[fw |-> {"pydantic"}, rel |-> PydMember(ann, "none")] : ann \in LifeAnns}
    \cup {[fw |-> {"pydantic", "sqlmodel"}, rel |-> SqlRelationship(ListOf(FRef("B")))]}

LifeInit == Init /\ decl \in LifeDecls

\* The record classes the declarations above refer to.
LifeModels == {"U", "B", "C"}

LifeNext ==
    \/ \E m \in LifeModels : AttachType(m)
    \/ \E m \in LifeModels : ClearType(m)
    \/ ProcessNestedFields
    \/ ResolveModel
    \/ ResolveForwardRef

SpecLife == LifeInit /\ [][LifeNext]_vars

-----------------------------------------------------------------------------
(* Claims about the backends, checked under SpecBackend *)

\* The field "rel" of a plain pydantic record class has been typed.
PlainRelTyped == be.pc = "typed" /\ be.name = "rel" /\ decl.fw = {"pydantic"}

\* The type B resolves to at this moment, for the placeholder created last.
TargetType(n) == IF stype[n] # 0 THEN SType(n, stype[n]) ELSE LazyModelType(n, nextId - 1)

DirectSingle == decl.rel.infields /\ decl.rel.ann \in {Cls("B"), MkOptional(Cls("B"))}

\* C2: for a plain record class with a direct single relation field to B,
\* get_strawberry_type succeeds and returns B's generated type when
\* B._strawberry_type exists and a model placeholder for B otherwise, wrapped
\* Optional exactly when the field is not required.
C2_DirectRelationType ==
    (decl.fw = {"pydantic"} /\ DirectSingle /\ be.name = "rel" /\ be.pc # "input")
    => /\ be.pc \in {"constructed", "typed"}
       /\ be.pc = "typed" =>
            be.got.typ = IF decl.rel.req = "true" THEN TargetType("B")
                         ELSE MkOptional(TargetType("B"))

C2_Witness ==
    /\ PlainRelTyped /\ decl.rel.ann = MkOptional(Cls("B")) /\ decl.rel.dflt = "none"
    /\ stype["B"] = 0
    /\ be.got.typ = MkOptional(LazyModelType("B", 1))

\* The resolved type of one union alternative.
ResolvesAlternative(t, alt, idx) ==
    CASE alt.k = "ref" -> t.k = "lazyref" /\ t.n = "U" /\ t.f = be.name /\ t.x = idx
      [] IsModelClass(alt) -> IF stype[alt.n] # 0 THEN t = SType(alt.n, stype[alt.n])
                              ELSE t.k = "lazymodel" /\ t.n = alt.n
      [] OTHER -> t = alt

\* C3: for a union relation with n >= 2 alternatives, _process_union yields a
\* union of exactly n members, the j-th being the resolved type of the j-th
\* alternative.
C3_UnionOneMemberPerAlternative ==
    (be.pc = "typed" /\ Len(be.res.self.child_model) >= 2)
    => LET u == be.got.bottom
           alts == be.res.self.child_model
       IN  /\ IsUnion(u)
           /\ Len(u.a) = Len(alts)
           /\ \A j \in 1..Len(alts) : ResolvesAlternative(u.a[j], alts[j], j - 1)

NonNoneArgs(t) == SelectSeq(t.a, NotNone)

UnionWithNone(t) == IsUnion(t) /\ NoneType \in Range(t.a) /\ Len(NonNoneArgs(t)) >= 2

\* C4: for a union relation field whose declared type includes a null
\* alternative, extraction strips the null and records an Optional wrapper,
\* and get_strawberry_type returns the union wrapped in Optional whatever the
\* requiredness.
C4_NullAlternativeStripped ==
    (be.pc = "typed" /\ be.name = "rel" /\ UnionWithNone(decl.rel.ann))
    => LET r == extract_type_list(decl.rel.ann)
       IN  /\ r.outer = <<"Optional">>
           /\ r.inner = NonNoneArgs(decl.rel.ann)
           /\ IsUnion(be.got.typ) /\ NoneType \in Range(be.got.typ.a)

OrmarForward(m) == m.infields /\ m.finfo \in {"ForeignKeyField", "ManyToManyField"}
OrmarReverse(m) == ~m.infields /\ m.attr = "accessor"

OrmarTarget(m) ==
    LET t == IF OrmarForward(m) THEN m.to ELSE m.acc
    IN  TargetType(t.n)

\* C6: for ORM extension A, a many-to-many or reverse relation to T resolves to
\* List[Optional[T']] and a single foreign key to T', wrapped Optional unless
\* the requiredness flag is definitively true.
C6_OrmarRelationType ==
    (decl.fw = {"pydantic", "ormar"} /\ be.name = "rel" /\ be.pc # "input"
        /\ (OrmarForward(decl.rel) \/ OrmarReverse(decl.rel)))
    => /\ be.pc \in {"constructed", "typed"}
       /\ be.pc = "typed" =>
            LET m == decl.rel
                inner == IF OrmarReverse(m) \/ m.finfo = "ManyToManyField"
                         THEN ListOf(MkOptional(OrmarTarget(m))) ELSE OrmarTarget(m)
            IN  be.got.typ = IF OrmarForward(m) /\ m.req = "true" THEN inner
                             ELSE MkOptional(inner)

\* C7: constructing Backend A succeeds whenever the field is a forward or a
\* reverse relation, and fails with RelationFieldError only if neither.
C7_OrmarConstruction ==
    (be.pc # "input" /\ be.res.self.cls = "NestedOrmarBackend")
    => LET m == MemberOf(decl, be.name)
       IN  IF OrmarForward(m) \/ OrmarReverse(m)
           THEN be.res.err = ""
           ELSE be.res.err = "RelationFieldError"

\* The backend class _nested_field_factory picks for the owner class.
Selected ==
    IF "ormar" \in decl.fw THEN "NestedOrmarBackend"
    ELSE IF "sqlmodel" \in decl.fw THEN "NestedSQLModelBackend"
    ELSE IF "pydantic" \in decl.fw THEN "NestedPydanticBackend"
    ELSE ""

\* C10 as claimed: Backend A first, then Backend B, then the default backend;
\* for a class of no known framework an error naming the model, and no backend.
C10_FactoryNamesUnsupportedModel ==
    be.pc # "input"
    => /\ be.res.self.cls = Selected
       /\ Selected = "" => (be.res.err # "" /\ be.res.names = Cls("U"))

\* C10 as amended: for a class of no known framework the factory fails with an
\* AssertionError whose message names nothing, and returns no backend.
C10_FactorySelection ==
    be.pc # "input"
    => /\ be.res.self.cls = Selected
       /\ Selected = "" => (be.res.err = "AssertionError" /\ be.res.names = NoneType
                            /\ be.pc = "raised")

C10_Witness ==
    /\ be.pc = "raised" /\ decl.fw = {} /\ be.res.err = "AssertionError"

-----------------------------------------------------------------------------
(* Claims about the SQLModel backend (specification SpecBackend) *)

SqlRelation ==
    /\ decl.fw = {"pydantic", "sqlmodel"} /\ be.name = "rel"
    /\ decl.rel # Absent /\ decl.rel.attr = "relationship"

\* What _process_type makes of a single model or forward reference, for the
\* placeholder created last.
ProcessedSingle(x) ==
    IF x.k = "ref" THEN LazyForwardRefType("U", "rel", 0, nextId - 1) ELSE TargetType(x.n)

\* C12: for the SQLModel backend a relationship annotated List[X] yields
\* List[X'], one annotated Optional[X] yields Optional[X'] and one annotated X
\* yields X', with no other Optional anywhere, X' being X's generated type or
\* its placeholder.
C12_SqlRelationshipShapes ==
    \A x \in {Cls("B"), FRef("B"), FRef("U")} :
        (SqlRelation /\ be.pc # "input"
            /\ decl.rel.ann \in {x, ListOf(x), MkOptional(x)})
        => /\ be.pc \in {"constructed", "typed"}
           /\ be.pc = "typed" =>
                be.got.typ = CASE decl.rel.ann = x -> ProcessedSingle(x)
                               [] decl.rel.ann = ListOf(x) -> ListOf(ProcessedSingle(x))
                               [] OTHER -> MkOptional(ProcessedSingle(x))

C12_Witness ==
    /\ SqlRelation /\ be.pc = "typed" /\ decl.rel.ann = ListOf(FRef("B"))
    /\ be.got.typ = ListOf(LazyForwardRefType("U", "rel", 0, 1))

\* C16: the SQLModel backend's requiredness flag is true when the annotation
\* has no outer wrapper, and otherwise true exactly when the outermost wrapper
\* is not Optional.
C16_SqlRequiredFlag ==
    (SqlRelation /\ be.pc \in {"constructed", "typed"})
    => LET outer == extract_type_list(decl.rel.ann).outer
       IN  Required(be.res.self, decl) = (outer = <<>> \/ outer[1] # "Optional")

-----------------------------------------------------------------------------
(* Claims about extract_type_list on unions (specification SpecUnionExtract) *)

\* The union the unwrapping of the annotation W[...[X]] stops at: X itself, or
\* X with a null alternative when the innermost wrapper is Optional.
ReachedUnion ==
    IF ex.w # <<>> /\ ex.w[Len(ex.w)] = "Optional" THEN MkOptional(ex.x) ELSE ex.x

NonNullAlternatives == SelectSeq(ReachedUnion.a, NotNone)

-----------------------------------------------------------------------------
(* Claims about the shim replace_ormar_types (specification SpecShim) *)

\* The shape of a type: placeholders without their instance identity.
RECURSIVE Shape(_)
Shape(t) ==
    IF IsLazy(t) THEN [t EXCEPT !.i = 0]
    ELSE [t EXCEPT !.a = [j \in 1..Len(t.a) |-> Shape(t.a[j])]]

\* C17: for an ormar model and a field that is a forward or reverse relation,
\* replace_ormar_types returns the same type shape as constructing
\* NestedOrmarBackend and calling get_strawberry_type, in every state of the
\* target's _strawberry_type; for a declared field that is no relation it
\* returns type_ unchanged where the backend signals RelationFieldError.
C17_ShimDuplicatesOrmarBackend ==
    (decl.fw = {"pydantic", "ormar"} /\ be.shim.pc = "done")
    => LET m == MemberOf(decl, be.name)
       IN  IF OrmarForward(m) \/ OrmarReverse(m)
           THEN /\ be.shim.err = ""
                /\ be.res.err = ""
                /\ be.pc = "typed" => Shape(be.got.typ) = Shape(be.shim.typ)
           ELSE m.infields => /\ be.shim.err = "" /\ be.shim.typ = m.ann
                              /\ be.res.err = "RelationFieldError"

-----------------------------------------------------------------------------
(* Claims about extract_type_list, checked under SpecExtract *)

\* Optional[Optional[T]] is Optional[T]: adjacent Optional markers are one.
RECURSIVE CollapseOptional(_)
CollapseOptional(w) ==
    IF Len(w) < 2 THEN w
    ELSE IF w[1] = "Optional" /\ w[2] = "Optional" THEN CollapseOptional(Tail(w))
    ELSE <<w[1]>> \o CollapseOptional(Tail(w))

\* C5 as claimed: extraction of W1[...Wk[X]] returns exactly [W1..Wk] and (X,),
\* and the reversed re-application around Y gives W1[...Wk[Y]].
C5_WrapperListIsDeclaredNesting ==
    /\ ex.pc \in {"extracted", "rebuilt"} =>
          ex.res.err = "" /\ ex.res.outer = ex.w /\ ex.res.inner = <<ex.x>>
    /\ ex.pc = "rebuilt" => ex.rebuilt = Nest(ex.w, ex.y)

\* C5 as amended: the wrapper list is [W1..Wk] with each run of adjacent
\* Optional wrappers counted once; bottom tuple and rebuilt type as claimed.
C5_ExtractRebuildRoundTrip ==
    /\ ex.pc \in {"extracted", "rebuilt"} =>
          ex.res.err = "" /\ ex.res.outer = CollapseOptional(ex.w) /\ ex.res.inner = <<ex.x>>
    /\ ex.pc = "rebuilt" => ex.rebuilt = Nest(ex.w, ex.y)

C5_Witness ==
    /\ ex.pc = "rebuilt" /\ ex.w = <<"Optional", "List">> /\ ex.x = FRef("B")
    /\ ex.res.outer = <<"Optional", "List">> /\ ex.res.inner = <<FRef("B")>>
    /\ ex.rebuilt = MkOptional(ListOf(SType("B", 1)))

-----------------------------------------------------------------------------
(* Claims about type generation and resolution (specification Spec) *)

\* What a declared type refers to below its Optional and List wrappers.
RECURSIVE RelLeaf(_)
RelLeaf(t) ==
    IF t.k = "List" THEN RelLeaf(t.a[1])
    ELSE IF NameOf(t) = "Optional" THEN RelLeaf(NonNoneArgs(t)[1])
    ELSE t

\* The record class U declares "rel" as a relation to one record class.
RefersToOne == decl.rel # Absent /\ MayBeModel(RelLeaf(decl.rel.ann))

RelTarget == RelLeaf(decl.rel.ann).n

\* The descriptors generated for "rel" by the last call.
RelFields == {out.fields[j] : j \in {k \in 1..Len(out.fields) : out.fields[k].python_name = "rel"}}

RECURSIVE Leaves(_)
Leaves(t) ==
    IF t.k \in {"List", "union"} THEN UNION {Leaves(t.a[j]) : j \in 1..Len(t.a)}
    ELSE {t}

RECURSIVE Reduces(_)
Reduces(t) ==
    \/ MayBeModel(t)
    \/ t.k = "List" /\ Reduces(t.a[1])
    \/ NameOf(t) = "Optional" /\ Reduces(NonNoneArgs(t)[1])
    \/ IsUnion(t) /\ NameOf(t) # "Optional" /\ \A j \in 1..Len(t.a) :
            t.a[j] = NoneType \/ MayBeModel(t.a[j])

\* Unwrapping Optional and List from the outside reaches a model, a forward
\* reference or a union (whatever the alternatives of the union are).
RECURSIVE Unwraps(_)
Unwraps(t) ==
    \/ MayBeModel(t)
    \/ t.k = "List" /\ Unwraps(t.a[1])
    \/ NameOf(t) = "Optional" /\ Unwraps(NonNoneArgs(t)[1])
    \/ IsUnion(t) /\ NameOf(t) # "Optional"

\* The backend selected for U takes the field for a relation.
TakenForRelation(name) ==
    LET m == MemberOf(decl, name)
    IN  /\ m # Absent
        /\ "ormar" \notin decl.fw
        /\ IF "sqlmodel" \in decl.fw THEN m.attr = "relationship"
           ELSE /\ "pydantic" \in decl.fw
                /\ m.infields
                /\ \/ MayBeModel(ModelField(m).type_)
                   \/ /\ IsUnion(ModelField(m).type_)
                      /\ \E t \in Range(ModelField(m).type_.a) : MayBeModel(t)

\* The type the backend unwraps for the field.
UnwrappedType(name) ==
    IF "sqlmodel" \in decl.fw THEN MemberOf(decl, name).ann
    ELSE ModelField(MemberOf(decl, name)).outer_type_

UnsupportedRelation(name) == TakenForRelation(name) /\ ~Unwraps(UnwrappedType(name))

Undeclared == out.requested \ out.type_class.annotations

Eligible == {n \in Undeclared : nested_field_factory(n, decl).err = ""}

DescriptorOf(f) ==
    /\ f.graphql_name = "None"
    /\ f.origin = out.type_class
    /\ f.default = IF f.python_name \in out.type_class.attrs THEN "default" ELSE "UNSET"

OneDescriptorPerEligible ==
    /\ Len(out.fields) = Cardinality(Eligible)
    /\ {out.fields[j].python_name : j \in 1..Len(out.fields)} = Eligible
    /\ \A j \in 1..Len(out.fields) : DescriptorOf(out.fields[j])

\* C9 as stated: every call returns one descriptor per eligible name.
C9_EveryCallReturnsDescriptors ==
    out.pc # "idle" => OneDescriptorPerEligible /\ out.pc = "returned"

\* C9 (amended): whenever process_nested_fields returns, it returns exactly one
\* descriptor (python_name the field name, graphql_name None, origin the type
\* under construction, default the attribute of the type or UNSET) for each
\* requested name that is not declared on the type and whose backend
\* construction succeeds, and none for any other name; when it raises instead,
\* the error is never RelationFieldError and never comes from a declared name.
C9_ReturnedDescriptors ==
    /\ out.pc = "returned" => OneDescriptorPerEligible
    /\ out.pc = "raised" => out.err # "RelationFieldError" /\ out.at \in Undeclared

C9_Witness ==
    /\ decl.fw = {"pydantic"} /\ decl.rel.ann = ListOf(FRef("B"))
    /\ out.pc = "returned" /\ out.requested = {"rel", "name"}
    /\ out.type_class = TypeClass({}, {"rel"})
    /\ Len(out.fields) = 1 /\ out.fields[1].python_name = "rel"
    /\ out.fields[1].default = "default"

-----------------------------------------------------------------------------
(* Claims about forward-reference placeholders (specification Spec) *)

\* The field's bottom-type tuple: the alternatives of the declared type below
\* its Optional and List wrappers.
RECURSIVE BottomTuple(_)
BottomTuple(t) ==
    IF t.k = "List" THEN BottomTuple(t.a[1])
    ELSE IF NameOf(t) = "Optional" THEN BottomTuple(NonNoneArgs(t)[1])
    ELSE IF IsUnion(t) THEN t.a
    ELSE <<t>>

\* The members of the union generated for the field, below its wrappers.
GeneratedMembers(t) == NonNoneArgs([k |-> "union", a |-> BottomTuple(t)])

ForwardRefField ==
    /\ decl.fw = {"pydantic"} /\ decl.rel # Absent
    /\ \A j \in 1..Len(BottomTuple(decl.rel.ann)) :
          BottomTuple(decl.rel.ann)[j].k \in {"ref", "NoneType"}
    /\ \E j \in 1..Len(BottomTuple(decl.rel.ann)) : BottomTuple(decl.rel.ann)[j].k = "ref"

\* Every placeholder carries the position of a forward reference of the tuple.
CarriesPosition ==
    ForwardRefField =>
        \A p \in Generated :
            /\ p.k = "lazyref" /\ p.n = "U" /\ p.f = "rel"
            /\ p.x + 1 \in 1..Len(BottomTuple(decl.rel.ann))
            /\ BottomTuple(decl.rel.ann)[p.x + 1].k = "ref"

\* A resolution returned the type of the alternative at the carried position.
ResolvedAtPosition ==
    (ForwardRefField /\ rv.pc = "resolved" /\ rv.p.k = "lazyref")
    => LET alt == BottomTuple(decl.rel.ann)[rv.p.x + 1]
       IN  rv.res = Resolution("", SType(alt.n, stype[alt.n]))

\* The i-th member of the generated union stands for the i-th alternative.
MembersInOrder ==
    ForwardRefField =>
        \A f \in RelFields :
            LET mem == GeneratedMembers(f.type_annotation)
                alts == NonNoneArgs([k |-> "union", a |-> BottomTuple(decl.rel.ann)])
            IN  /\ Len(mem) = Len(alts)
                /\ \A j \in 1..Len(mem) : mem[j].k = "lazyref" /\ mem[j].x = j - 1

\* C15: every forward-reference placeholder of the default backend carries the
\* position of its alternative in the field's bottom-type tuple, its resolution
\* returns the generated type of the alternative at that position, and so the
\* i-th member of the generated union resolves to the i-th alternative,
\* whatever Optional/List wrapping surrounds the union.
C15_PlaceholderPositions ==
    CarriesPosition /\ ResolvedAtPosition /\ MembersInOrder

-----------------------------------------------------------------------------
(* Claims about placeholder resolution over the life of the cached types
   (specification SpecLife) *)

\* C11: resolving a model placeholder while its target has no _strawberry_type
\* fails with AttributeError and changes neither the placeholder (the generated
\* fields) nor the target class; resolving it while the target is converted
\* returns the target's cached GraphQL type.
C11_ModelPlaceholderResolution ==
    [][ResolveModel =>
         IF stype[rv'.p.n] = 0
         THEN /\ rv'.pc = "failed" /\ rv'.res.err = "AttributeError"
              /\ UNCHANGED <<stype, gens, out, memo>>
         ELSE /\ rv'.pc = "resolved"
              /\ rv'.res = Resolution("", SType(rv'.p.n, stype[rv'.p.n]))]_vars

\* A model placeholder resolved before its target was ever converted.
C11_Witness ==
    /\ rv.pc = "failed" /\ rv.p.k = "lazymodel" /\ rv.p.n = "B"
    /\ rv.res.err = "AttributeError"
    /\ gens["B"] = 0

\* C13: _resolve_type of a forward-reference placeholder is memoized per
\* instance: after a successful resolution every later resolution of the same
\* instance returns the same type, whatever happened to the target's
\* _strawberry_type in between, and a failed resolution caches nothing.
C13_ForwardRefMemoized ==
    /\ [][(ResolveForwardRef /\ rv.pc = "resolved" /\ rv.p = rv'.p) => rv'.res = rv.res]_vars
    /\ [][(ResolveForwardRef /\ rv'.p.i \in DOMAIN memo)
             => rv'.res = Resolution("", memo[rv'.p.i])]_vars
    /\ [][\A i \in DOMAIN memo : i \in DOMAIN memo' /\ memo'[i] = memo[i]]_vars
    /\ [][(ResolveForwardRef /\ rv'.pc = "failed")
             => (memo' = memo /\ rv'.p.i \notin DOMAIN memo)]_vars

\* The cached type of a placeholder outlives a clear and a regeneration.
C13_Witness ==
    /\ rv.pc = "resolved" /\ rv.p.k = "lazyref" /\ rv.p.i \in DOMAIN memo
    /\ memo[rv.p.i] = SType("B", 1) /\ rv.res.typ = SType("B", 1)
    /\ stype["B"] = 2

\* C14 as stated: the first resolution of a LazyModelType instance caches the
\* type, so a later resolution of the same instance returns that same type.
C14_ModelPlaceholderMemoized ==
    [][(ResolveModel /\ rv.pc = "resolved" /\ rv.p = rv'.p) => rv'.res = rv.res]_vars

\* C14 (amended): resolve_type of a LazyModelType instance keeps nothing: every
\* resolution reads the target's _strawberry_type of that moment, so after a
\* clear and a regeneration it returns the regenerated type, and while cleared
\* it fails with AttributeError.
C14_ModelPlaceholderReadsCurrent ==
    [][ResolveModel =>
         rv'.res = IF stype[rv'.p.n] # 0
                   THEN Resolution("", SType(rv'.p.n, stype[rv'.p.n]))
                   ELSE Resolution("AttributeError", NoneType)]_vars

\* A model placeholder resolves to the second type generated for its target.
C14_Witness ==
    /\ rv.pc = "resolved" /\ rv.p.k = "lazymodel" /\ rv.p.n = "B"
    /\ rv.res.typ = SType("B", 2)

-----------------------------------------------------------------------------
(* Claims about the outcomes of backend construction (specification SpecBackend) *)

\* A backend class was selected and its constructor has run.
Constructing == be.pc # "input" /\ be.res.self.cls # ""

ConstructionOutcomes ==
    Constructing
    => LET m == MemberOf(decl, be.name)
           cls == be.res.self.cls
       IN  /\ be.res.err = "" => be.res.self.child_model # <<>>
           /\ be.res.err \in {"", "RelationFieldError", "KeyError", "AttributeError",
                               "UnsupportedTypeError"}
           /\ be.res.err = "KeyError" <=> (cls = "NestedPydanticBackend" /\ ~m.infields)
           /\ be.res.err = "AttributeError"
                 <=> (cls = "NestedSQLModelBackend" /\ m.attr \in {"absent", "plain"})
           /\ be.res.err = "UnsupportedTypeError"
                 <=> (cls = "NestedSQLModelBackend" /\ m.attr = "relationship"
                      /\ ~Unwraps(m.ann))
           /\ cls = "NestedOrmarBackend" => be.res.err = "RelationFieldError"

\* get_strawberry_type leaves the constructed instance as it is.
GetTypeKeepsChildModel ==
    be.pc = "constructed" => be'.res.self.child_model = be.res.self.child_model

====
